---- MODULE Spec2Model ----
(***************************************************************************)
(* DbSeeder (src/exercises/09-databaseSeeder.code.ts, repeated verbatim in *)
(* src/exercises/07-databaseSeeder.exercise.ts): a fluent builder holding  *)
(* two plain JavaScript objects, users and posts, filled by addUser and    *)
(* addPost and handed out by transact.                                     *)
(*                                                                         *)
(* JavaScript objects are modelled as heap cells: a cell has its own       *)
(* properties and an optional prototype override.  A reference is an index *)
(* into the heap, so that two references to one object alias.              *)
(***************************************************************************)
EXTENDS Integers, Sequences, FiniteSets, TLC

VARIABLES
  \* DbSeeder: the heap, the builder, the results of transact, the log of
  \* add calls, the outcome of the last call
  heap, this, results, observed, log, outcome,
  \* the plain DbSeeder (no type parameter, no casts) given the same calls
  plain,
  \* createComponent, onSubmit, nonNullQuerySelector, removeMapsPrefixFromObj
  cc, form, dom, strip,
  \* canUserAccess
  access

\* the variables of the programs other than DbSeeder
others == <<cc, form, dom, strip, access>>

\* the variables of DbSeeder
seeder == <<heap, this, results, observed, log, outcome, plain>>

vars ==
  <<heap, this, results, observed, log, outcome, plain, cc, form, dom, strip,
    access>>

\* the value of the variables of a program that is not running
Idle == [pc |-> "idle"]

(* ---- bounds ---------------------------------------------------------- *)

\* number of add calls explored on one builder
MaxAdds == 3
\* number of transact calls explored on one builder
MaxTransacts == 2

(* ---- inputs ---------------------------------------------------------- *)

\* identifiers passed to addUser: "post1" is also passed to addPost, and
\* "__proto__" is the one string a plain object does not store as a key
UserIds == {"matt", "post1", "__proto__"}
\* identifiers passed to addPost
PostIds == {"post1", "post2"}

\* values passed as the `user` argument: Omit<User, "id">, and an object
\* that (structurally allowed at run time) carries a stale id and an extra
\* field
UserInputs ==
  { [name |-> "Matt"],
    [name |-> "Joel", id |-> "stale", nick |-> "j"] }

\* values passed as the `post` argument: Omit<Post, "id">; the author
\* "matt" is a user of the builder only once addUser("matt", ...) was called
PostInputs ==
  { [title |-> "Post 2", authorId |-> "matt"],
    [title |-> "Post", authorId |-> "matt"] }

(* ---- JavaScript object semantics ------------------------------------- *)

\* the object literal {} : no own property, prototype Object.prototype
\* (proto = <<>> stands for "still Object.prototype")
EmptyObject == [own |-> <<>>, proto |-> <<>>]

\* a slip: { id: id, ...data } -- an id carried by data replaces the key
SpreadWithId_idFirst(data, id) ==
  [f \in (DOMAIN data) \cup {"id"} |->
     IF f \in DOMAIN data THEN data[f] ELSE id]

\* { ...data, id: id } : own enumerable properties of data are copied, then
\* id is defined, replacing an id copied from data
SpreadWithId(data, id) ==
  [f \in (DOMAIN data) \cup {"id"} |-> IF f = "id" THEN id ELSE data[f]]

\* a slip: obj[key] ??= value -- an existing entry is kept
PutValue_keepFirst(obj, key, value) ==
  IF key = "__proto__"
    THEN IF obj.proto = <<>> THEN [obj EXCEPT !.proto = <<value>>] ELSE obj
    ELSE [obj EXCEPT !.own = obj.own @@ (key :> value)]

\* a slip: obj = { [key]: value } -- the other entries are lost
PutValue_replaceAll(obj, key, value) ==
  IF key = "__proto__"
    THEN [obj EXCEPT !.proto = <<value>>]
    ELSE [obj EXCEPT !.own = (key :> value)]

\* obj[key] = value on a plain object whose prototype chain ends in
\* Object.prototype: the key "__proto__" reaches the accessor of
\* Object.prototype, which replaces the prototype of obj by value (an
\* object) and creates no own property; every other key becomes an own data
\* property, replacing the previous value
PutValue(obj, key, value) ==
  IF key = "__proto__"
    THEN [obj EXCEPT !.proto = <<value>>]
    ELSE [obj EXCEPT !.own = (key :> value) @@ obj.own]

\* own enumerable string keys of obj (Object.keys)
OwnKeys(obj) == DOMAIN obj.own

\* properties every plain object inherits from Object.prototype
ObjectPrototypeKeys ==
  {"constructor", "toString", "valueOf", "hasOwnProperty"}

\* obj[key] read: the "__proto__" accessor yields the prototype; otherwise
\* own property, then the prototype chain, then undefined
Get(obj, key) ==
  IF key = "__proto__"
    THEN IF obj.proto = <<>>
           THEN [kind |-> "builtin"]
           ELSE [kind |-> "object", value |-> obj.proto[1]]
  ELSE IF key \in DOMAIN obj.own
    THEN [kind |-> "object", value |-> obj.own[key]]
  ELSE IF obj.proto # <<>> /\ key \in DOMAIN obj.proto[1]
    THEN [kind |-> "string", value |-> obj.proto[1][key]]
  ELSE IF key \in ObjectPrototypeKeys
    THEN [kind |-> "builtin"]
  ELSE [kind |-> "undefined"]

(* ---- DbSeeder -------------------------------------------------------- *)

\* the seeded variant of the field initialiser (solution #9)
SeededUsers ==
  [own |-> ("joel" :> [id |-> "joel", name |-> "joel"]), proto |-> <<>>]

\* public users: DbShape["users"] = {};
InitialUsers == EmptyObject
\* public posts: DbShape["posts"] = {};
InitialPosts == EmptyObject

\* new DbSeeder(): the two field initialisers allocate one object each
NewHeap == <<InitialUsers, InitialPosts>>
NewThis == [users |-> 1, posts |-> 2]

\* a slip: this.users[id] = user -- the id field is not added
addUser_dropId(h, t, id, user) ==
  [heap |-> [h EXCEPT ![t.users] = PutValue(h[t.users], id, user)],
   completion |-> "normal",
   value |-> t]

\* a slip: a duplicate identifier is rejected with an error
addUser_rejectDuplicate(h, t, id, user) ==
  IF id \in OwnKeys(h[t.users])
    THEN [heap |-> h, completion |-> "throw", value |-> [error |-> "Error"]]
    ELSE [heap |-> [h EXCEPT ![t.users] =
                      PutValue(h[t.users], id, SpreadWithId(user, id))],
          completion |-> "normal",
          value |-> t]

\* addUser: this.users[id] = { ...user, id: id }; return this; -- the value
\* returned is the receiver itself
addUser(h, t, id, user) ==
  [heap |-> [h EXCEPT ![t.users] = PutValue(h[t.users], id, SpreadWithId(user, id))],
   completion |-> "normal",
   value |-> t]

\* a slip: this.users[id] = { ...post, id } -- the wrong collection
addPost_intoUsers(h, t, id, post) ==
  [heap |-> [h EXCEPT ![t.users] = PutValue(h[t.users], id, SpreadWithId(post, id))],
   completion |-> "normal",
   value |-> t]

\* a variant: the post is stored, but the handle returned is a new builder
\* that holds this post only
addPost_freshHandle(h, t, id, post) ==
  [heap |-> [h EXCEPT ![t.posts] = PutValue(h[t.posts], id, SpreadWithId(post, id))]
              \o << EmptyObject, PutValue(EmptyObject, id, SpreadWithId(post, id)) >>,
   completion |-> "normal",
   value |-> [users |-> Len(h) + 1, posts |-> Len(h) + 2]]

\* a variant: a post whose authorId is not a key of users is refused
addPost_requireAuthor(h, t, id, post) ==
  IF post.authorId \in OwnKeys(h[t.users])
    THEN [heap |-> [h EXCEPT ![t.posts] =
                      PutValue(h[t.posts], id, SpreadWithId(post, id))],
          completion |-> "normal",
          value |-> t]
    ELSE [heap |-> h,
          completion |-> "throw",
          value |-> [name |-> "Error"]]

\* addPost: this.posts[id] = { ...post, id }; return this; -- the value
\* returned is the receiver itself
addPost(h, t, id, post) ==
  [heap |-> [h EXCEPT ![t.posts] = PutValue(h[t.posts], id, SpreadWithId(post, id))],
   completion |-> "normal",
   value |-> t]

\* a variant: return { users: { ...this.users }, posts: { ...this.posts } }
\* -- the result holds fresh copies of the two collections
transact_copy(h, t) ==
  [heap |-> h \o << [own |-> h[t.users].own, proto |-> <<>>],
                    [own |-> h[t.posts].own, proto |-> <<>>] >>,
   completion |-> "normal",
   value |-> [promise |-> "fulfilled"],
   result |-> [users |-> Len(h) + 1, posts |-> Len(h) + 2]]

\* a variant: the builder is emptied once its entries have been handed out
transact_flush(h, t) ==
  [heap |-> [h EXCEPT ![t.users] = EmptyObject, ![t.posts] = EmptyObject]
              \o <<h[t.users], h[t.posts]>>,
   completion |-> "normal",
   value |-> [promise |-> "fulfilled"],
   result |-> [users |-> Len(h) + 1, posts |-> Len(h) + 2]]

\* a variant: the write fails when there is nothing to write, and the
\* promise is rejected
transact_rejectEmpty(h, t) ==
  IF OwnKeys(h[t.users]) = {} /\ OwnKeys(h[t.posts]) = {}
    THEN [heap |-> h,
          completion |-> "normal",
          value |-> [promise |-> "rejected"],
          result |-> [users |-> t.users, posts |-> t.posts]]
    ELSE [heap |-> h,
          completion |-> "normal",
          value |-> [promise |-> "fulfilled"],
          result |-> [users |-> t.users, posts |-> t.posts]]

\* transact: return { users: this.users, posts: this.posts } -- the fields
\* of the result are the builder's own two objects, not copies; being an
\* async function without await or throw, its promise is fulfilled with
\* that result
transact(h, t) ==
  [heap |-> h,
   completion |-> "normal",
   value |-> [promise |-> "fulfilled"],
   result |-> [users |-> t.users, posts |-> t.posts]]

\* what a reader of a transact result sees through its two references
Deep(h, r) == [users |-> h[r.users], posts |-> h[r.posts]]

(* ---- the plain DbSeeder ---------------------------------------------- *)

\* (id: string, user) => { this.users[id] = { ...user, id: id }; return this; }
plainAddUser(h, t, id, user) ==
  [heap |-> [h EXCEPT ![t.users] = PutValue(h[t.users], id, SpreadWithId(user, id))],
   completion |-> "normal",
   value |-> t]

\* (id: string, post) => { this.posts[id] = { ...post, id }; return this; }
plainAddPost(h, t, id, post) ==
  [heap |-> [h EXCEPT ![t.posts] = PutValue(h[t.posts], id, SpreadWithId(post, id))],
   completion |-> "normal",
   value |-> t]

\* async () => { return { users: this.users, posts: this.posts }; }
plainTransact(h, t) ==
  [heap |-> h,
   completion |-> "normal",
   value |-> [promise |-> "fulfilled"],
   result |-> [users |-> t.users, posts |-> t.posts]]

\* new DbSeeder() of the plain class, with the snapshots it has returned
NewPlain == [heap |-> <<EmptyObject, EmptyObject>>, observed |-> <<>>]

(* ---- state machine --------------------------------------------------- *)

\* new DbSeeder(), of the generic and of the plain class
SeederInit ==
  /\ heap = NewHeap
  /\ this = NewThis
  /\ results = <<>>
  /\ observed = <<>>
  /\ log = <<>>
  /\ outcome = [call |-> "new", completion |-> "normal", value |-> NewThis]
  /\ plain = NewPlain

Init ==
  /\ SeederInit
  /\ cc = Idle
  /\ form = Idle
  /\ dom = Idle
  /\ strip = Idle
  /\ access = Idle

AddUser ==
  /\ Len(log) < MaxAdds
  /\ \E id \in UserIds, user \in UserInputs :
       LET r == addUser(heap, this, id, user) IN
         /\ heap' = r.heap
         /\ outcome' = [call |-> "addUser", completion |-> r.completion,
                         value |-> r.value]
         /\ log' = Append(log, [op |-> "addUser", id |-> id, data |-> user])
         /\ plain' = [plain EXCEPT
                        !.heap = plainAddUser(plain.heap, NewThis, id, user).heap]
  /\ UNCHANGED <<this, results, observed>>
  /\ UNCHANGED others

AddPost ==
  /\ Len(log) < MaxAdds
  /\ \E id \in PostIds, post \in PostInputs :
       LET r == addPost(heap, this, id, post) IN
         /\ heap' = r.heap
         /\ outcome' = [call |-> "addPost", completion |-> r.completion,
                         value |-> r.value]
         /\ log' = Append(log, [op |-> "addPost", id |-> id, data |-> post])
         /\ plain' = [plain EXCEPT
                        !.heap = plainAddPost(plain.heap, NewThis, id, post).heap]
  /\ UNCHANGED <<this, results, observed>>
  /\ UNCHANGED others

Transact ==
  /\ Len(results) < MaxTransacts
  /\ LET r == transact(heap, this) IN
       /\ heap' = r.heap
       /\ outcome' = [call |-> "transact", completion |-> r.completion,
                       value |-> r.value]
       /\ results' = Append(results, r.result)
       /\ observed' = Append(observed, [adds |-> Len(log), value |-> Deep(r.heap, r.result)])
  /\ LET q == plainTransact(plain.heap, NewThis) IN
       plain' = [heap |-> q.heap,
                 observed |-> Append(plain.observed, Deep(q.heap, q.result))]
  /\ UNCHANGED <<this, log>>
  /\ UNCHANGED others

Next == AddUser \/ AddPost \/ Transact

Spec == Init /\ [][Next]_vars

(* ---- DbSeeder with a default user (solution #9) ------------------------ *)

\* a slip: the default user is declared in the type parameter only
DefaultUsers_typeOnly == EmptyObject

\* public users: DbShape["users"] = { joel: { id: "joel", name: "joel" } };
DefaultUsers ==
  [own |-> ("joel" :> [id |-> "joel", name |-> "joel"]), proto |-> <<>>]

\* the default of the type parameter:
\* TDatabase extends DbShape = { users: { joel: User }; posts: {} }
DeclaredDefault ==
  [users |-> [literal |-> {"joel"}, index |-> FALSE],
   posts |-> [literal |-> {}, index |-> FALSE]]

\* identifiers passed to addUser of the seeded class
SeededUserIds == {"joel", "matt", "__proto__"}

\* new DbSeeder() of the seeded class
InitSeeded ==
  /\ heap = <<DefaultUsers, InitialPosts>>
  /\ this = NewThis
  /\ results = <<>>
  /\ observed = <<>>
  /\ log = <<>>
  /\ outcome = [call |-> "new", completion |-> "normal", value |-> NewThis]
  /\ plain = NewPlain
  /\ cc = Idle
  /\ form = Idle
  /\ dom = Idle
  /\ strip = Idle
  /\ access = Idle

\* addUser of the seeded class: the method of the class is unchanged
AddUserSeeded ==
  /\ Len(log) < MaxAdds
  /\ \E id \in SeededUserIds, user \in UserInputs :
       LET r == addUser(heap, this, id, user) IN
         /\ heap' = r.heap
         /\ outcome' = [call |-> "addUser", completion |-> r.completion,
                         value |-> r.value]
         /\ log' = Append(log, [op |-> "addUser", id |-> id, data |-> user])
         /\ plain' = [plain EXCEPT
                        !.heap = plainAddUser(plain.heap, NewThis, id, user).heap]
  /\ UNCHANGED <<this, results, observed>>
  /\ UNCHANGED others

NextSeeded == AddUserSeeded \/ AddPost \/ Transact

SpecSeeded == InitSeeded /\ [][NextSeeded]_vars

(* ---- strings ---------------------------------------------------------- *)

\* A string is the sequence of its pieces; a + b is a \o b.

\* Array.prototype.join(sep) of an array of strings: the elements with sep
\* between them, "" for the empty array
RECURSIVE Join(_, _)
Join(arr, sep) ==
  IF arr = <<>> THEN <<>>
  ELSE IF Len(arr) = 1 THEN arr[1]
  ELSE arr[1] \o sep \o Join(Tail(arr), sep)

\* ToString of an array (the conversion join applies to an element that is
\* itself an array): its elements joined by ","
ArrayToString(arr) == Join(arr, <<",">>)

(* ---- createComponent -------------------------------------------------- *)

\* number of other classes passed in one call
MaxClasses == 2

\* the config objects passed to createComponent
Configs ==
  { [primary |-> <<"bg-blue-300">>, secondary |-> <<"bg-green-300">>],
    [primary |-> <<"bg-blue-300">>] }

\* the strings passed as other classes ("px-4 py-2" is one argument)
Classes == { <<"px-4">>, <<"py-2">>, <<"px-4", " ", "py-2">> }

\* the argument lists ...otherClasses
ClassLists == UNION { [1..n -> Classes] : n \in 0..MaxClasses }

\* 05-createComponent.exercise.ts:
\* config[variant] + " " + otherClasses.join(" ")
createComponent05(config, variant, otherClasses) ==
  config[variant] \o <<" ">> \o Join(otherClasses, <<" ">>)

\* 07-createComponent.exercise.ts:
\* component[variant] + " " + otherClasses.join(" ")
createComponent07(component, variant, otherClasses) ==
  component[variant] \o <<" ">> \o Join(otherClasses, <<" ">>)

\* 07-createComponent.solutions.ts, solution #3:
\* config[variant] + " " + classes.join(" ")
createComponentSolution3(config, variant, classes) ==
  config[variant] \o <<" ">> \o Join(classes, <<" ">>)

\* unnamed/part_002: config[variant] + " " + otherClasses.join(" ")
createComponentPart002(config, variant, otherClasses) ==
  config[variant] \o <<" ">> \o Join(otherClasses, <<" ">>)

\* 08-removeMapsFromObj.code.ts:
\* [component[variant], otherClasses].join(" ") -- a two-element array whose
\* second element is the array otherClasses, which join converts with
\* ToString
createComponent08(component, variant, otherClasses) ==
  Join(<<component[variant], ArrayToString(otherClasses)>>, <<" ">>)

Implementations == {"05.exercise", "07.exercise", "07.solution3", "part_002", "08.code"}

\* the function returned by createComponent(config) of implementation impl,
\* applied to (variant, ...otherClasses)
GetClasses(impl, config, variant, otherClasses) ==
  CASE impl = "05.exercise" -> createComponent05(config, variant, otherClasses)
    [] impl = "07.exercise" -> createComponent07(config, variant, otherClasses)
    [] impl = "07.solution3" -> createComponentSolution3(config, variant, otherClasses)
    [] impl = "part_002" -> createComponentPart002(config, variant, otherClasses)
    [] impl = "08.code" -> createComponent08(config, variant, otherClasses)

InitCC ==
  /\ SeederInit
  /\ cc = [pc |-> "start"]
  /\ form = Idle
  /\ dom = Idle
  /\ strip = Idle
  /\ access = Idle

\* const getButtonClasses = createComponent(config)
CreateComponent ==
  /\ cc.pc = "start"
  /\ \E impl \in Implementations, config \in Configs :
       cc' = [pc |-> "created", impl |-> impl, config |-> config]
  /\ UNCHANGED <<seeder, form, dom, strip, access>>

\* getButtonClasses(variant, ...otherClasses), any number of times
CallGetClasses ==
  /\ cc.pc \in {"created", "returned"}
  /\ \E variant \in DOMAIN cc.config, otherClasses \in ClassLists :
       cc' = [pc |-> "returned", impl |-> cc.impl, config |-> cc.config,
              variant |-> variant, otherClasses |-> otherClasses,
              result |-> GetClasses(cc.impl, cc.config, variant, otherClasses)]
  /\ UNCHANGED <<seeder, form, dom, strip, access>>

NextCC == CreateComponent \/ CallGetClasses

SpecCC == InitCC /\ [][NextCC]_vars

(* ---- isValidEmail / createUser / onSubmit ------------------------------ *)

\* length of the email strings submitted
MaxEmailLen == 3

\* the characters of the email strings
EmailChars == {"a", "b", "@", "."}

\* values.email
Emails == UNION { [1..n -> EmailChars] : n \in 0..MaxEmailLen }

\* a slip: the check looks for "." instead of "@"
isValidEmail_dot(email) ==
  \E i \in DOMAIN email : email[i] = "."

\* isValidEmail: return email.includes("@");
isValidEmail(email) ==
  \E i \in DOMAIN email : email[i] = "@"

\* createUser: async (user) => { return user; } -- the user is created and
\* the promise returned is fulfilled with it
createUser(user) ==
  [promise |-> "fulfilled", value |-> user]

\* a slip: the user is created first and the email checked afterwards
onSubmit_createFirst(values) ==
  LET created == createUser([email |-> values.email]) IN
    IF ~isValidEmail(values.email)
      THEN [pc |-> "done", email |-> values.email,
            trace |-> << [call |-> "createUser", email |-> values.email],
                         [call |-> "isValidEmail", email |-> values.email,
                          returned |-> FALSE] >>,
            created |-> <<created.value>>,
            promise |-> "rejected", error |-> [message |-> "Email is invalid"]]
      ELSE [pc |-> "await", email |-> values.email,
            trace |-> << [call |-> "createUser", email |-> values.email],
                         [call |-> "isValidEmail", email |-> values.email,
                          returned |-> TRUE] >>,
            created |-> <<created.value>>,
            promise |-> "pending", error |-> [message |-> "none"]]

\* onSubmit up to its await: if (!isValidEmail(values.email)) throw new
\* Error("Email is invalid"), which rejects the promise of the async
\* function; otherwise createUser({ email: values.email }) is called and
\* onSubmit waits for its promise.  trace lists the calls made, in order.
onSubmit(values) ==
  IF ~isValidEmail(values.email)
    THEN [pc |-> "done", email |-> values.email,
          trace |-> << [call |-> "isValidEmail", email |-> values.email,
                        returned |-> FALSE] >>,
          created |-> <<>>,
          promise |-> "rejected", error |-> [message |-> "Email is invalid"]]
    ELSE LET created == createUser([email |-> values.email]) IN
         [pc |-> "await", email |-> values.email,
          trace |-> << [call |-> "isValidEmail", email |-> values.email,
                        returned |-> TRUE],
                       [call |-> "createUser", email |-> values.email] >>,
          created |-> <<created.value>>,
          promise |-> "pending", error |-> [message |-> "none"]]

InitSubmit ==
  /\ SeederInit
  /\ cc = Idle
  /\ form = [pc |-> "start"]
  /\ dom = Idle
  /\ strip = Idle
  /\ access = Idle

\* onSubmit(values) is called
Submit ==
  /\ form.pc = "start"
  /\ \E email \in Emails : form' = onSubmit([email |-> email])
  /\ UNCHANGED <<seeder, cc, dom, strip, access>>

\* the await of createUser's promise completes: onSubmit returns and its
\* promise is fulfilled
ResumeSubmit ==
  /\ form.pc = "await"
  /\ form' = [form EXCEPT !.pc = "done", !.promise = "fulfilled"]
  /\ UNCHANGED <<seeder, cc, dom, strip, access>>

NextSubmit == Submit \/ ResumeSubmit

SpecSubmit == InitSubmit /\ [][NextSubmit]_vars

(* ---- nonNullQuerySelector ---------------------------------------------- *)

\* number of elements a document may hold
MaxElements == 2

\* the value null
Null == [kind |-> "null"]

\* Element objects
Elements == { [kind |-> "element", id |-> n] : n \in 1..MaxElements }

\* selectors that parse
Selectors == {"body", ".class", "clipPath"}

\* the empty string is not a selector: document.querySelector throws a
\* SyntaxError for it
Tags == Selectors \cup {""}

\* a document, by the first element each selector matches (or null)
Documents == [Selectors -> Elements \cup {Null}]

\* document.querySelector(tag)
querySelector(document, tag) ==
  IF tag \in Selectors
    THEN [completion |-> "normal", value |-> document[tag]]
    ELSE [completion |-> "throw", value |-> [name |-> "SyntaxError"]]

\* `Element not found with tag: ${tag}`
NotFoundMessage(tag) == <<"Element not found with tag: ">> \o <<tag>>

\* a slip: the element is returned without the null check
nonNullQuerySelector_unchecked(document, tag) ==
  querySelector(document, tag)

\* nonNullQuerySelector: const element = document.querySelector(tag);
\* if (!element) throw new Error(...); return element;  An exception of
\* querySelector propagates; an Element object is truthy, null is falsy.
nonNullQuerySelector(document, tag) ==
  LET element == querySelector(document, tag) IN
    IF element.completion = "throw" THEN element
    ELSE IF element.value = Null
      THEN [completion |-> "throw",
            value |-> [name |-> "Error", message |-> NotFoundMessage(tag)]]
      ELSE [completion |-> "normal", value |-> element.value]

InitDom ==
  /\ SeederInit
  /\ cc = Idle
  /\ form = Idle
  /\ \E document \in Documents : dom = [pc |-> "start", document |-> document]
  /\ strip = Idle
  /\ access = Idle

\* nonNullQuerySelector(tag) is called
CallNonNullQuerySelector ==
  /\ dom.pc = "start"
  /\ \E tag \in Tags :
       dom' = [pc |-> "done", document |-> dom.document, tag |-> tag,
               outcome |-> nonNullQuerySelector(dom.document, tag)]
  /\ UNCHANGED <<seeder, cc, form, strip, access>>

NextDom == CallNonNullQuerySelector

SpecDom == InitDom /\ [][NextDom]_vars

(* ---- removeMapsPrefixFromObj ------------------------------------------- *)

\* number of properties of the input object
MaxKeys == 2

\* number of times "maps:" is prefixed to a key of the input
MaxPrefixes == 2

\* "maps:", by characters
MapsPrefix == <<"m", "a", "p", "s", ":">>

\* "__proto__", by characters
ProtoKey == <<"_", "_", "p", "r", "o", "t", "o", "_", "_">>

RECURSIVE Prefixed(_, _)
\* key with "maps:" prefixed n times
Prefixed(n, key) ==
  IF n = 0 THEN key ELSE MapsPrefix \o Prefixed(n - 1, key)

\* keys of the input objects
StripKeys ==
  { Prefixed(n, suffix) :
      n \in 0..MaxPrefixes, suffix \in {<<"x">>, <<"y">>, ProtoKey} }

\* values of the input objects (strings)
StripValues == {"1", "2"}

\* input objects: own enumerable properties in creation order, which is
\* the order for..in visits them in
StripInputs ==
  { obj \in UNION { [1..n -> [key : StripKeys, value : StripValues]] :
                      n \in 0..MaxKeys } :
      \A i, j \in DOMAIN obj : obj[i].key = obj[j].key => i = j }

\* String.prototype.startsWith
startsWith(str, searchString) ==
  /\ Len(str) >= Len(searchString)
  /\ SubSeq(str, 1, Len(searchString)) = searchString

\* a slip: the key is kept whole
substring_whole(str, start) == str

\* String.prototype.substring(start)
substring(str, start) == SubSeq(str, start + 1, Len(str))

\* newObj[key] = value for a string value, on a plain object: the
\* "__proto__" accessor of Object.prototype ignores a value that is neither
\* an object nor null and no own property is created; every other key
\* becomes an own property, replacing the previous value
PutPrimitive(newObj, key, value) ==
  IF key = ProtoKey THEN newObj ELSE (key :> value) @@ newObj

RECURSIVE removeMapsLoop(_, _, _)
\* the for..in loop from the i-th property of obj on
removeMapsLoop(obj, i, newObj) ==
  IF i > Len(obj) THEN newObj
  ELSE LET key == obj[i].key IN
    removeMapsLoop(obj, i + 1,
      IF startsWith(key, MapsPrefix)
        THEN PutPrimitive(newObj, substring(key, 5), obj[i].value)
        ELSE PutPrimitive(newObj, key, obj[i].value))

\* removeMapsPrefixFromObj: const newObj = {}; the loop; return newObj
removeMapsPrefixFromObj(obj) == removeMapsLoop(obj, 1, <<>>)

\* type RemoveMaps<TString> =
\*   TString extends `maps:${infer TSuffix}` ? TSuffix : TString
RemoveMaps(TString) ==
  IF Len(TString) >= Len(MapsPrefix)
     /\ SubSeq(TString, 1, Len(MapsPrefix)) = MapsPrefix
    THEN SubSeq(TString, Len(MapsPrefix) + 1, Len(TString))
    ELSE TString

\* type RemoveMapsPrefixFromObj<TObj> =
\*   { [ObjKey in keyof TObj as RemoveMaps<ObjKey>]: TObj[ObjKey] }
\* for the type of the object obj: each key of the mapped type, with the
\* values of the keys of obj that are mapped to it
RemoveMapsPrefixFromObj(obj) ==
  [k \in {RemoveMaps(obj[i].key) : i \in DOMAIN obj} |->
     {obj[i].value : i \in {j \in DOMAIN obj : RemoveMaps(obj[j].key) = k}}]

InitStrip ==
  /\ SeederInit
  /\ cc = Idle
  /\ form = Idle
  /\ dom = Idle
  /\ strip = [pc |-> "start"]
  /\ access = Idle

\* removeMapsPrefixFromObj(obj) is called
CallRemoveMapsPrefixFromObj ==
  /\ strip.pc = "start"
  /\ \E obj \in StripInputs :
       strip' = [pc |-> "done", obj |-> obj,
                 result |-> removeMapsPrefixFromObj(obj)]
  /\ UNCHANGED <<seeder, cc, form, dom, access>>

NextStrip == CallRemoveMapsPrefixFromObj

SpecStrip == InitStrip /\ [][NextStrip]_vars

(* ---- canUserAccess ------------------------------------------------------ *)

\* number of calls made
MaxCalls == 2

\* const userAccessModel = { user: [...], admin: [...], anonymous: [...] }
\* as const -- the same object in both versions of canUserAccess
userAccessModel ==
  [user |-> <<"update-self", "view">>,
   admin |-> <<"create", "update-self", "update-any", "delete", "view">>,
   anonymous |-> <<"view">>]

\* type Role = keyof typeof userAccessModel
Role == DOMAIN userAccessModel

\* type Action = typeof userAccessModel[Role][number]
Action ==
  UNION { {userAccessModel[r][i] : i \in DOMAIN userAccessModel[r]} : r \in Role }

\* a variant: Action<R> is the type Action, whatever the role
ActionOf_anyRole(R) == Action

\* type Action<R extends Role> = typeof userAccessModel[R][number]; R is a
\* role, or a union of roles given as the set of its members
ActionOf(R) ==
  UNION { {userAccessModel[r][i] : i \in DOMAIN userAccessModel[r]} : r \in R }

\* a slip: only the first element is compared
includes_first(arr, searchElement) ==
  arr # <<>> /\ arr[1] = searchElement

\* Array.prototype.includes
includes(arr, searchElement) ==
  \E i \in DOMAIN arr : arr[i] = searchElement

\* canUserAccess = (role: Role, action: Action) =>
\*   (userAccessModel[role] as ReadonlyArray<Action>).includes(action)
canUserAccess(role, action) ==
  includes(userAccessModel[role], action)

\* canUserAccess = <R extends Role>(role: R, action: Action<R>) =>
\*   (userAccessModel[role] as ReadonlyArray<Action<R>>).includes(action)
canUserAccessGeneric(role, action) ==
  includes(userAccessModel[role], action)

InitAccess ==
  /\ SeederInit
  /\ cc = Idle
  /\ form = Idle
  /\ dom = Idle
  /\ strip = Idle
  /\ access = [pc |-> "run", calls |-> <<>>]

\* a call of canUserAccess with arguments of its parameter types
CallCanUserAccess ==
  /\ access.pc = "run"
  /\ Len(access.calls) < MaxCalls
  /\ \E role \in Role, action \in Action :
       access' = [access EXCEPT !.calls =
         Append(@, [fn |-> "canUserAccess", R |-> Role, role |-> role,
                    action |-> action,
                    returned |-> canUserAccess(role, action)])]
  /\ UNCHANGED <<seeder, cc, form, dom, strip>>

\* a call of the generic canUserAccess that type-checks: R is inferred from
\* the type of the role argument (one role, or a union of roles), and the
\* action argument is of type Action<R>
CallCanUserAccessGeneric ==
  /\ access.pc = "run"
  /\ Len(access.calls) < MaxCalls
  /\ \E R \in (SUBSET Role) \ {{}} :
       \E role \in R, action \in ActionOf(R) :
         access' = [access EXCEPT !.calls =
           Append(@, [fn |-> "canUserAccessGeneric", R |-> R, role |-> role,
                      action |-> action,
                      returned |-> canUserAccessGeneric(role, action)])]
  /\ UNCHANGED <<seeder, cc, form, dom, strip>>

NextAccess == CallCanUserAccess \/ CallCanUserAccessGeneric

SpecAccess == InitAccess /\ [][NextAccess]_vars

(* ---- call sequences on a fresh builder -------------------------------- *)

\* one logged add call applied to heap h of a builder t
ApplyAdd(h, t, o) ==
  IF o.op = "addUser"
    THEN addUser(h, t, o.id, o.data).heap
    ELSE addPost(h, t, o.id, o.data).heap

\* new DbSeeder() followed by the add calls of l, in order
RECURSIVE Replay(_)
Replay(l) ==
  IF l = <<>>
    THEN NewHeap
    ELSE ApplyAdd(Replay(SubSeq(l, 1, Len(l) - 1)), NewThis, l[Len(l)])

\* ... followed by transact: what the caller reads from the result
ReplayTransact(l) ==
  LET r == transact(Replay(l), NewThis) IN Deep(r.heap, r.result)

\* the chain of `usage`
UsageLog ==
  << [op |-> "addUser", id |-> "matt", data |-> [name |-> "Matt"]],
     [op |-> "addPost", id |-> "post1",
      data |-> [authorId |-> "matt", title |-> "Post 2"]],
     [op |-> "addPost", id |-> "post2",
      data |-> [authorId |-> "matt", title |-> "Post"]] >>

\* one add call of a chain: the receiver is the handle p.handle that the
\* previous call of the chain returned
ChainAdd(p, o) ==
  LET r == IF o.op = "addUser"
             THEN addUser(p.heap, p.handle, o.id, o.data)
             ELSE addPost(p.heap, p.handle, o.id, o.data)
  IN [heap |-> r.heap, handle |-> r.value]

\* new DbSeeder().add1(...).add2(...) ... : the calls of l chained as in
\* `usage`
RECURSIVE Chain(_)
Chain(l) ==
  IF l = <<>>
    THEN [heap |-> NewHeap, handle |-> NewThis]
    ELSE ChainAdd(Chain(SubSeq(l, 1, Len(l) - 1)), l[Len(l)])

\* ... .transact(): what the caller reads from the result of the chain
ChainTransact(l) ==
  LET p == Chain(l)
      r == transact(p.heap, p.handle)
  IN Deep(r.heap, r.result)

(* ---- the declared type of the builder --------------------------------- *)

\* The type argument TDatabase, one component per category: the literal
\* keys it declares, and whether it has the index signature of
\* Record<string, ...>.

\* new DbSeeder() without a type argument: TDatabase is its constraint
\* DbShape = { users: Record<string, User>; posts: Record<string, Post> }
DeclaredNew ==
  [users |-> [literal |-> {}, index |-> TRUE],
   posts |-> [literal |-> {}, index |-> TRUE]]

\* return type of addUser:
\* DbSeeder<TDatabase & { users: TDatabase["users"] & Record<Id, User> }>
DeclaredAddUser(T, id) ==
  [T EXCEPT !.users.literal = @ \cup {id}]

\* return type of addPost:
\* DbSeeder<TDatabase & { posts: TDatabase["posts"] & Record<Id, Post> }>
DeclaredAddPost(T, id) ==
  [T EXCEPT !.posts.literal = @ \cup {id}]

\* the type argument of the handle at the end of the chain of the calls l;
\* transact casts this.users to its users and this.posts to its posts
RECURSIVE DeclaredAfter(_)
DeclaredAfter(l) ==
  IF l = <<>>
    THEN DeclaredNew
    ELSE LET T == DeclaredAfter(SubSeq(l, 1, Len(l) - 1))
             o == l[Len(l)]
         IN IF o.op = "addUser"
              THEN DeclaredAddUser(T, o.id)
              ELSE DeclaredAddPost(T, o.id)

(* ---- vocabulary of the properties ------------------------------------- *)

Category(o) == IF o.op = "addUser" THEN "users" ELSE "posts"

\* the add calls made before the i-th transact
Before(i) == SubSeq(log, 1, observed[i].adds)

\* the transact call that has just returned, if the last call was transact.
\* The log before a transact call and what the call returned are recorded
\* once and never change, and every transact call is the last call in the
\* state it leads to: a property of what transact returns is checked there.
JustReturned ==
  IF outcome.call = "transact" THEN {Len(observed)} ELSE {}

\* the record X extended with id = A
ExtendedWithId(X, A) ==
  [f \in (DOMAIN X) \cup {"id"} |-> IF f = "id" THEN A ELSE X[f]]

\* snapshot[category][id] is an entry equal to e
HasEntry(snapshot, category, id, e) ==
  LET g == Get(snapshot[category], id) IN
    /\ g.kind = "object"
    /\ g.value = e

\* k is the last call of l on its category and identifier
IsLastWrite(l, k) ==
  \A m \in DOMAIN l :
    (m > k) => ~(l[m].op = l[k].op /\ l[m].id = l[k].id)

\* no identifier is used twice within a category
DistinctIds(l) ==
  \A k, m \in DOMAIN l :
    (k # m) => ~(l[k].op = l[m].op /\ l[k].id = l[m].id)

\* all orderings of the calls of l
RECURSIVE Orderings(_, _)
Orderings(l, S) ==
  IF S = {}
    THEN {<<>>}
    ELSE UNION { { <<l[k]>> \o q : q \in Orderings(l, S \ {k}) } : k \in S }

(* ---- properties ------------------------------------------------------- *)

\* C1: after any add calls on a fresh DbSeeder followed by transact, every
\* identifier passed to addUser is an own key of the returned users
\* collection and every identifier passed to addPost an own key of the
\* returned posts collection.  Fails for the identifier "__proto__".
C1_EveryIdIsAKey ==
  \A i \in JustReturned :
    \A k \in DOMAIN Before(i) :
      Before(i)[k].id \in OwnKeys(observed[i].value[Category(Before(i)[k])])

\* C2: after add (C1, A, X) and then add (C2, B, Y), (C1, A) # (C2, B), on a
\* fresh builder, transact returns a snapshot with snapshot[C1][A] = X extended
\* with id = A and snapshot[C2][B] = Y extended with id = B; and the chain
\* of `usage` yields exactly users = {matt} and posts = {post1, post2} with
\* the field values given.
C2_TwoAddsThenTransact ==
  \A i \in JustReturned :
    LET l == Before(i)
        v == observed[i].value
    IN
      /\ (Len(l) = 2 /\ ~(l[1].op = l[2].op /\ l[1].id = l[2].id)) =>
           \A k \in 1..2 :
             HasEntry(v, Category(l[k]), l[k].id, ExtendedWithId(l[k].data, l[k].id))
      /\ (l = UsageLog) =>
           /\ v.users = [own |-> ("matt" :> [id |-> "matt", name |-> "Matt"]),
                         proto |-> <<>>]
           /\ v.posts =
                [own |-> ("post1" :> [id |-> "post1", title |-> "Post 2",
                                      authorId |-> "matt"])
                         @@ ("post2" :> [id |-> "post2", title |-> "Post",
                                         authorId |-> "matt"]),
                 proto |-> <<>>]

\* C2 witness: transact has returned after two adds to different
\* categories, and again after the whole chain of `usage`
C2_Witness ==
  /\ \E i \in DOMAIN observed : Before(i) = UsageLog
  /\ \E i \in DOMAIN observed :
       /\ Len(Before(i)) = 2
       /\ Before(i)[1].op # Before(i)[2].op

C4_LastWriteWins ==
  \A i \in JustReturned :
    LET l == Before(i)
        v == observed[i].value
    IN
      \A k, m \in DOMAIN l :
        (k < m /\ l[k].op = l[m].op /\ l[k].id = l[m].id /\ IsLastWrite(l, m)) =>
          /\ HasEntry(v, Category(l[m]), l[m].id, ExtendedWithId(l[m].data, l[m].id))
          /\ DOMAIN Get(v[Category(l[m])], l[m].id).value \subseteq (DOMAIN l[m].data) \cup {"id"}
          /\ Cardinality({key \in OwnKeys(v[Category(l[m])]) : key = l[m].id}) = 1

\* C5: in every builder state and in every snapshot (as returned and as
\* read later), each entry stored under key k has id = k, also when the
\* data passed carries another id.
EntriesCarryTheirKey(obj) ==
  /\ \A k \in OwnKeys(obj) : obj.own[k].id = k
  /\ (obj.proto # <<>>) => obj.proto[1].id = "__proto__"

C5_IdFieldIsKey ==
  /\ EntriesCarryTheirKey(heap[this.users])
  /\ EntriesCarryTheirKey(heap[this.posts])
  /\ \A i \in DOMAIN results :
       /\ EntriesCarryTheirKey(observed[i].value.users)
       /\ EntriesCarryTheirKey(observed[i].value.posts)
       /\ EntriesCarryTheirKey(Deep(heap, results[i]).users)
       /\ EntriesCarryTheirKey(Deep(heap, results[i]).posts)

\* C5 witness: a user whose data carried a different id, and a post, have
\* been stored and returned
C5_Witness ==
  \E i \in DOMAIN observed :
    /\ \E k \in DOMAIN Before(i) :
         /\ Before(i)[k].op = "addUser"
         /\ "id" \in DOMAIN Before(i)[k].data
         /\ Before(i)[k].data.id # Before(i)[k].id
         /\ Before(i)[k].id \in OwnKeys(observed[i].value.users)
    /\ \E k \in DOMAIN Before(i) :
         /\ Before(i)[k].op = "addPost"
         /\ Before(i)[k].id \in OwnKeys(observed[i].value.posts)

\* C6: addUser leaves posts unchanged and addPost leaves users unchanged,
\* so the users collection (live and committed) is what the addUser calls
\* alone produce and the posts collection what the addPost calls alone
\* produce, the same identifier used in both categories included.
OnlyOp(l, op) == SelectSeq(l, LAMBDA o : o.op = op)

C6_CategoriesIndependent ==
  /\ [][ /\ (outcome'.call = "addUser") => heap'[this.posts] = heap[this.posts]
         /\ (outcome'.call = "addPost") => heap'[this.users] = heap[this.users]
       ]_vars
  /\ [](\A i \in JustReturned :
          /\ observed[i].value.users = ReplayTransact(OnlyOp(Before(i), "addUser")).users
          /\ observed[i].value.posts = ReplayTransact(OnlyOp(Before(i), "addPost")).posts)

\* C6 witness: a snapshot taken after the same identifier was added to
\* both categories, users first and posts last
C6_Witness ==
  \E i \in DOMAIN observed :
    LET l == Before(i) IN
      /\ Len(l) = 3
      /\ l[1].op = "addUser"
      /\ l[3].op = "addPost"
      /\ \E k, m \in DOMAIN l : l[k].op # l[m].op /\ l[k].id = l[m].id

\* C7: for add calls with identifiers distinct within each category, every
\* ordering of the calls on a fresh builder commits the same snapshot; with
\* a repeated identifier, the committed entry is the data of the later call.
C7_OrderIrrelevantLaterWins ==
  \A i \in JustReturned :
    LET l == Before(i)
        v == observed[i].value
    IN
      /\ DistinctIds(l) =>
           \A q \in Orderings(l, DOMAIN l) : ReplayTransact(q) = v
      /\ \A m \in DOMAIN l :
           IsLastWrite(l, m) =>
             HasEntry(v, Category(l[m]), l[m].id, ExtendedWithId(l[m].data, l[m].id))

\* C7 witness: one snapshot after calls on both categories with distinct
\* identifiers, one after an identifier was repeated with other data
C7_Witness ==
  /\ \E i \in DOMAIN observed :
       /\ Len(Before(i)) >= 2
       /\ DistinctIds(Before(i))
       /\ Before(i)[1].op # Before(i)[2].op
  /\ \E i \in DOMAIN observed :
       \E k, m \in DOMAIN Before(i) :
         /\ k < m
         /\ Before(i)[k].op = Before(i)[m].op
         /\ Before(i)[k].id = Before(i)[m].id
         /\ Before(i)[k].data # Before(i)[m].data

\* C8: transact calls with no add call in between return equal snapshots.
C8_RepeatedTransactEqual ==
  \A i, j \in DOMAIN observed :
    (observed[i].adds = observed[j].adds) =>
      /\ observed[i].value = observed[j].value
      /\ Deep(heap, results[i]) = Deep(heap, results[j])

\* C8 witness: two transact calls on a non-empty builder, no add in between
C8_Witness ==
  \E i, j \in DOMAIN observed :
    /\ i # j
    /\ observed[i].adds = observed[j].adds
    /\ observed[i].adds > 0

\* C9: transact on a fresh builder, before any add call, yields users = {}
\* and posts = {}.
C9_EmptyBuilderCommitsEmpty ==
  \A i \in JustReturned :
    (observed[i].adds = 0) =>
      /\ OwnKeys(observed[i].value.users) = {}
      /\ observed[i].value.users.proto = <<>>
      /\ OwnKeys(observed[i].value.posts) = {}
      /\ observed[i].value.posts.proto = <<>>

\* C9 witness: transact was the first call on the builder
C9_Witness ==
  /\ Len(observed) >= 1
  /\ observed[1].adds = 0

\* C10: no add call produces an error: from every builder state, for every
\* identifier (new or already used in its category) and every data value,
\* the call that was made completed normally and returned the builder.
C10_AddNeverFails ==
  (outcome.call \in {"addUser", "addPost"}) =>
    /\ outcome.completion = "normal"
    /\ outcome.value = this

\* C10 witness: an add call on an identifier already used in its category,
\* with other data, has returned the builder
C10_Witness ==
  /\ Len(log) >= 2
  /\ outcome.call = log[Len(log)].op
  /\ outcome.completion = "normal"
  /\ \E k \in 1..(Len(log) - 1) :
       /\ log[k].op = log[Len(log)].op
       /\ log[k].id = log[Len(log)].id
       /\ log[k].id # "__proto__"
       /\ log[k].data # log[Len(log)].data

\* the identifiers passed to the add operation of category c in l
Passed(l, c) == {l[k].id : k \in {m \in DOMAIN l : Category(l[m]) = c}}

\* identifiers a reader of a snapshot may look up
LookupKeys == UserIds \cup PostIds \cup ObjectPrototypeKeys \cup {"name", "nobody"}

\* C11: in a committed snapshot the key set of users is exactly the set of
\* identifiers passed to addUser, that of posts exactly those passed to
\* addPost, and looking up an identifier never passed to the category's add
\* operation yields undefined.  Fails for "__proto__" (see C1) and for the
\* names a plain object inherits from Object.prototype.
C11_KeysExactlyAdded ==
  \A i \in JustReturned :
    \A c \in {"users", "posts"} :
      /\ OwnKeys(observed[i].value[c]) = Passed(Before(i), c)
      /\ \A id \in LookupKeys \ Passed(Before(i), c) :
           Get(observed[i].value[c], id).kind = "undefined"

\* C12: every add call returns a handle that carries all entries so far:
\* the chain new DbSeeder().add1(...).add2(...).transact() returns the same
\* snapshot as add1, add2 and transact called one after another on the
\* builder itself, and each add call returns that builder.
C12_ChainEqualsSeparateCalls ==
  /\ (outcome.call \in {"addUser", "addPost"}) => outcome.value = this
  /\ \A i \in JustReturned : ChainTransact(Before(i)) = observed[i].value

\* C12 witness: transact has returned after three add calls on both
\* categories
C12_Witness ==
  \E i \in JustReturned :
    /\ Len(Before(i)) = 3
    /\ Before(i)[1].op = "addPost"
    /\ Before(i)[2].op = "addUser"
    /\ Before(i)[3].op = "addPost"
    /\ Before(i)[1].id # Before(i)[3].id

\* C19: after any chain of add calls from new DbSeeder() the literal keys
\* declared for each category are exactly the identifiers passed to that
\* category's add operation, and each of them is a key of the runtime
\* collection that transact casts to that type.  The second part fails for
\* "__proto__" (see C1).
C19_DeclaredKeysExactAndPresent ==
  \A i \in JustReturned :
    \A c \in {"users", "posts"} :
      /\ DeclaredAfter(Before(i))[c].literal = Passed(Before(i), c)
      /\ DeclaredAfter(Before(i))[c].literal \subseteq OwnKeys(observed[i].value[c])

\* C20: entries are never removed: an identifier that is a key of users (or
\* of posts) stays a key of that collection in every later state.
C20_KeysNeverRemoved ==
  [][ /\ OwnKeys(heap[this.users]) \subseteq OwnKeys(heap'[this.users])
      /\ OwnKeys(heap[this.posts]) \subseteq OwnKeys(heap'[this.posts])
    ]_vars

\* C20 witness: after an entry was stored, further add calls (one of them
\* an overwrite) and a transact call have been made
C20_Witness ==
  /\ Len(log) = 3
  /\ Len(results) >= 1
  /\ log[1].op = log[3].op
  /\ log[1].id = log[3].id
  /\ log[1].id # "__proto__"
  /\ log[2].id # "__proto__"
  /\ log[2].id # log[1].id

\* C13: the generic DbSeeder and the plain DbSeeder, given the same calls,
\* go through the same users and posts and return the same snapshots.
C13_PlainAndGenericAgree ==
  /\ heap[this.users] = plain.heap[NewThis.users]
  /\ heap[this.posts] = plain.heap[NewThis.posts]
  /\ Len(plain.observed) = Len(observed)
  /\ \A i \in DOMAIN observed : observed[i].value = plain.observed[i]

\* C13 witness: both classes have returned two snapshots, add calls on both
\* categories before and between them
C13_Witness ==
  /\ Len(observed) = 2
  /\ Len(plain.observed) = 2
  /\ observed[1].adds = 2
  /\ observed[2].adds = 3
  /\ log[1].op # log[2].op
  /\ log[3].id = log[1].id

\* C14: for every config, variant key and list of other classes, the
\* function returned by createComponent returns config[variant], one space,
\* and the other classes joined by single spaces, in each implementation.
\* Fails for the implementation of 08-removeMapsFromObj.code.ts with two or
\* more other classes.
C14_VariantSpaceClasses ==
  (cc.pc = "returned") =>
    cc.result = cc.config[cc.variant] \o <<" ">> \o Join(cc.otherClasses, <<" ">>)

\* the email contains "@"
ContainsAt(email) == "@" \in {email[i] : i \in DOMAIN email}

\* C15: in every execution of onSubmit, createUser is invoked exactly when
\* isValidEmail returned true for values.email (the email contains "@"),
\* and after that check; when the email does not contain "@", onSubmit
\* fails with the error "Email is invalid" and createUser is not invoked.
C15_NoUserWithoutCheck ==
  (form.pc \in {"await", "done"}) =>
    /\ (form.created # <<>>) <=> ContainsAt(form.email)
    /\ (\E k \in DOMAIN form.trace : form.trace[k].call = "createUser")
         <=> ContainsAt(form.email)
    /\ \A k \in DOMAIN form.trace :
         (form.trace[k].call = "createUser") =>
           /\ form.trace[k].email = form.email
           /\ \E j \in 1..(k - 1) :
                /\ form.trace[j].call = "isValidEmail"
                /\ form.trace[j].email = form.email
                /\ form.trace[j].returned
    /\ \A k \in DOMAIN form.created : form.created[k] = [email |-> form.email]
    /\ Len(form.created) <= 1
    /\ (~ContainsAt(form.email)) =>
         /\ form.promise = "rejected"
         /\ form.error.message = "Email is invalid"
    /\ ContainsAt(form.email) => form.promise # "rejected"

\* C15 witness: a user was created for an email containing "@", and
\* onSubmit has completed
C15_Witness ==
  /\ form.pc = "done"
  /\ form.promise = "fulfilled"
  /\ Len(form.email) = 3
  /\ form.email[2] = "@"
  /\ form.created = <<[email |-> form.email]>>

\* C16: nonNullQuerySelector never returns null: for every tag, if
\* document.querySelector finds an element, exactly that element is returned,
\* and if it finds none, an Error with message "Element not found with tag: "
\* followed by the tag is thrown instead of returning.
C16_NeverReturnsNull ==
  (dom.pc = "done") =>
    /\ (dom.outcome.completion = "normal") => dom.outcome.value \in Elements
    /\ \A el \in Elements :
         (dom.tag \in Selectors /\ dom.document[dom.tag] = el) =>
           dom.outcome = [completion |-> "normal", value |-> el]
    /\ (dom.tag \in Selectors /\ dom.document[dom.tag] = Null) =>
         /\ dom.outcome.completion = "throw"
         /\ dom.outcome.value.name = "Error"
         /\ dom.outcome.value.message =
              <<"Element not found with tag: ", dom.tag>>

\* C16 witness: the call was made with a selector that matches nothing in a
\* document that holds elements for the other selectors, and it threw
C16_Witness ==
  /\ dom.pc = "done"
  /\ dom.tag = "clipPath"
  /\ dom.document["clipPath"] = Null
  /\ dom.document["body"] \in Elements
  /\ dom.outcome.completion = "throw"

\* C17 as stated: for every input object, no key of the object returned by
\* removeMapsPrefixFromObj starts with "maps:".
C17_NoMapsKeyInResult ==
  (strip.pc = "done") =>
    \A k \in DOMAIN strip.result : ~startsWith(k, MapsPrefix)

\* C17 amended: every key of the object returned by removeMapsPrefixFromObj
\* is a key of the input with one leading "maps:" removed, or a key of the
\* input that has no such prefix; a key of the result starts with "maps:"
\* only when it comes from a key of the input that starts with "maps:maps:".
C17_OnePrefixRemoved ==
  (strip.pc = "done") =>
    \A k \in DOMAIN strip.result :
      \E i \in DOMAIN strip.obj :
        /\ \/ strip.obj[i].key = MapsPrefix \o k
           \/ strip.obj[i].key = k /\ ~startsWith(k, MapsPrefix)
        /\ startsWith(k, MapsPrefix) =>
             startsWith(strip.obj[i].key, MapsPrefix \o MapsPrefix)

\* C17 witness: the input had "maps:x" and "maps:maps:y"; the result has
\* "x" and "maps:y"
C17_Witness ==
  /\ strip.pc = "done"
  /\ \E i, j \in DOMAIN strip.obj :
       /\ strip.obj[i].key = MapsPrefix \o <<"x">>
       /\ strip.obj[j].key = MapsPrefix \o MapsPrefix \o <<"y">>
  /\ DOMAIN strip.result = {<<"x">>, MapsPrefix \o <<"y">>}

\* C18: for every input object and every key k of it that does not start
\* with "maps:", the object returned by removeMapsPrefixFromObj has key k
\* with the same value as the input, whatever other keys the input has.
C18_UnprefixedPreserved ==
  (strip.pc = "done") =>
    \A i \in DOMAIN strip.obj :
      ~startsWith(strip.obj[i].key, MapsPrefix) =>
        /\ strip.obj[i].key \in DOMAIN strip.result
        /\ strip.result[strip.obj[i].key] = strip.obj[i].value

\* the call that this step makes
StepIs(call) ==
  /\ outcome'.call = call
  /\ <<log', results'>> # <<log, results>>

\* C21: addPost with an authorId that is not a key of users (also on a
\* builder with no users at all) completes normally, stores the post with
\* that authorId unchanged, and leaves users unchanged.
C21_NoReferentialIntegrity ==
  [][ StepIs("addPost") =>
        LET o == log'[Len(log')] IN
          (o.data.authorId \notin OwnKeys(heap[this.users])) =>
            /\ outcome'.completion = "normal"
            /\ Get(heap'[this.posts], o.id) =
                 [kind |-> "object",
                  value |-> ExtendedWithId(o.data, o.id)]
            /\ Get(heap'[this.posts], o.id).value.authorId = o.data.authorId
            /\ heap'[this.users] = heap[this.users]
            /\ this' = this
    ]_vars

\* C21 witness: a post by "matt" has just been stored by a builder that has
\* a user, but none with the key "matt"
C21_Witness ==
  /\ outcome.call = "addPost"
  /\ OwnKeys(heap[this.users]) = {"post1"}
  /\ \E id \in OwnKeys(heap[this.posts]) :
       heap[this.posts].own[id].authorId = "matt"

\* C22: transact performs no write of its own: it leaves the users and
\* posts collections of the builder as they were before the call, and the
\* builder accepts further add calls afterwards.
C22_TransactWritesNothing ==
  [][ /\ StepIs("transact") =>
           /\ this' = this
           /\ heap'[this.users] = heap[this.users]
           /\ heap'[this.posts] = heap[this.posts]
      /\ (results # <<>> /\ log' # log) =>
           LET o == log'[Len(log')] IN
             /\ outcome'.completion = "normal"
             /\ Get(heap'[this[Category(o)]], o.id) =
                  [kind |-> "object", value |-> ExtendedWithId(o.data, o.id)]
    ]_vars

\* C22 witness: transact was called on a builder holding entries, and an
\* add call with a new identifier was made after it
C22_Witness ==
  /\ Len(observed) >= 1
  /\ observed[1].adds >= 1
  /\ Len(log) > observed[1].adds
  /\ outcome.call # "transact"
  /\ \A k \in 1..(Len(log) - 1) : log[k].id # log[Len(log)].id

\* C23: from every builder state, the promise returned by transact is
\* fulfilled with the snapshot of the builder and is never rejected.
C23_TransactAlwaysFulfils ==
  [][ StepIs("transact") =>
        /\ outcome'.completion = "normal"
        /\ outcome'.value.promise = "fulfilled"
        /\ Deep(heap', results'[Len(results')]) =
             [users |-> heap[this.users], posts |-> heap[this.posts]]
    ]_vars

\* C23 witness: transact has returned on an empty builder and again on a
\* builder holding users and posts
C23_Witness ==
  /\ outcome.call = "transact"
  /\ Len(observed) = 2
  /\ observed[1].adds = 0
  /\ OwnKeys(observed[2].value.users) # {}
  /\ OwnKeys(observed[2].value.posts) # {}

\* C24: in the seeded DbSeeder, transact with zero add operations yields
\* users = {joel: {id: "joel", name: "joel"}} and posts = {}, so the keys
\* declared by the default type parameter and the initial keys at run time
\* agree; a later addUser("joel", X) overwrites the seed entry.
C24_SeededDefault ==
  /\ \A i \in DOMAIN observed :
       (observed[i].adds = 0) =>
         /\ observed[i].value.users =
              [own |-> ("joel" :> [id |-> "joel", name |-> "joel"]),
               proto |-> <<>>]
         /\ observed[i].value.posts = [own |-> <<>>, proto |-> <<>>]
         /\ \A c \in {"users", "posts"} :
              DeclaredDefault[c].literal = OwnKeys(observed[i].value[c])
  /\ \A i \in JustReturned :
       LET l == Before(i) IN
         /\ (\A m \in DOMAIN l : ~(l[m].op = "addUser" /\ l[m].id = "joel")) =>
              HasEntry(observed[i].value, "users", "joel",
                       [id |-> "joel", name |-> "joel"])
         /\ \A m \in DOMAIN l :
              (l[m].op = "addUser" /\ l[m].id = "joel" /\ IsLastWrite(l, m)) =>
                /\ HasEntry(observed[i].value, "users", "joel",
                            ExtendedWithId(l[m].data, "joel"))
                /\ ~HasEntry(observed[i].value, "users", "joel",
                             [id |-> "joel", name |-> "joel"])

\* C24 witness: the seeded builder has returned a snapshot before any add
\* call and another one after addUser("joel", ...)
C24_Witness ==
  /\ outcome.call = "transact"
  /\ Len(observed) = 2
  /\ observed[1].adds = 0
  /\ "joel" \in OwnKeys(observed[1].value.users)
  /\ \E m \in DOMAIN Before(2) :
       Before(2)[m].op = "addUser" /\ Before(2)[m].id = "joel"

\* the role/action pairs the access model lists
Listed ==
  ({"user"} \X {"update-self", "view"})
    \cup ({"admin"} \X {"create", "update-self", "update-any", "delete", "view"})
    \cup ({"anonymous"} \X {"view"})

\* C25: canUserAccess(role, action) returns true exactly when action is
\* listed for role in userAccessModel (user: update-self, view; admin:
\* create, update-self, update-any, delete, view; anonymous: view), and
\* false for every other role/action pair.
C25_TrueExactlyWhenListed ==
  \A k \in DOMAIN access.calls :
    LET c == access.calls[k] IN
      (c.fn = "canUserAccess") =>
        /\ c.returned \in BOOLEAN
        /\ c.returned <=> (<<c.role, c.action>> \in Listed)

\* C25 witness: one call has returned true for a listed pair (an action
\* that is not the first of its role), another false for an unlisted pair
C25_Witness ==
  /\ Len(access.calls) = 2
  /\ access.calls[1] = [fn |-> "canUserAccess", R |-> Role, role |-> "admin",
                         action |-> "delete", returned |-> TRUE]
  /\ access.calls[2].fn = "canUserAccess"
  /\ access.calls[2].role = "anonymous"
  /\ access.calls[2].action = "delete"
  /\ ~access.calls[2].returned

\* C26: in the generic canUserAccess, every call with a single role R and
\* an action admitted by Action<R> returns true; no type-correct call with
\* a single role returns false.
C26_SingleRoleAlwaysTrue ==
  \A k \in DOMAIN access.calls :
    LET c == access.calls[k] IN
      (c.fn = "canUserAccessGeneric" /\ Cardinality(c.R) = 1) =>
        c.returned = TRUE

\* C26 witness: generic calls for the single roles user and admin, each
\* with the last action of its role
C26_Witness ==
  /\ Len(access.calls) = 2
  /\ access.calls[1].fn = "canUserAccessGeneric"
  /\ access.calls[1].R = {"user"}
  /\ access.calls[1].action = "view"
  /\ access.calls[2].fn = "canUserAccessGeneric"
  /\ access.calls[2].R = {"admin"}
  /\ access.calls[2].action = "delete"
  /\ access.calls[2].returned

\* C27: for every input object whose stripped keys do not collide, the
\* object returned by removeMapsPrefixFromObj has exactly the keys of the
\* type RemoveMapsPrefixFromObj of the input -- one key per input key k, k
\* with one leading "maps:" removed, any other key unchanged -- each with
\* the value the input has at k.  Fails for a key that is stripped to
\* "__proto__".
C27_FunctionMatchesTypeHelper ==
  (strip.pc = "done") =>
    LET T == RemoveMapsPrefixFromObj(strip.obj) IN
      (\A i, j \in DOMAIN strip.obj :
         (i # j) => RemoveMaps(strip.obj[i].key) # RemoveMaps(strip.obj[j].key))
      =>
        /\ DOMAIN strip.result = DOMAIN T
        /\ \A i \in DOMAIN strip.obj :
             /\ RemoveMaps(strip.obj[i].key) \in DOMAIN strip.result
             /\ strip.result[RemoveMaps(strip.obj[i].key)] = strip.obj[i].value

====
